---- MODULE Spec2Model ----
(***************************************************************************)
(* A model of saj_portal_scraper: the MQTT discovery/state publishers of   *)
(* mqtt_utils.py and the numeric extractor, plant aggregator and peak      *)
(* tracker of utils.py.                                                    *)
(*                                                                         *)
(* Python strings are TLA+ strings, read character by character with       *)
(* SubSeq, Len and \o.  Python's None is the string None below; a value    *)
(* json.dumps cannot serialize is the string Unserializable.               *)
(***************************************************************************)
EXTENDS Integers, Sequences, FiniteSets, TLC

VARIABLES
    discovered,   \* mqtt_utils._DISCOVERED_ENTITIES
    client,       \* what connect_mqtt returned to the caller: "none" or "client"
    connected,    \* client.is_connected()
    last,         \* the last call made: its inputs, the set before it, the client calls it made
    first,        \* the call before `last` when `last` repeats it with the same inputs, else NoCall
    fetched,      \* the argument fetched_data of aggregate_plant_data
    aggregated,   \* the aggregated_data it returned, once agg_done
    agg_done,
    current_date,     \* datetime.now().date(), as a day number
    peak_power,       \* the caller's PeakState: the peak returned by the last call
    last_reset_date,  \* the caller's PeakState: the reset date returned by the last call
    peak_call,        \* the last call of calculate_peak_power: arguments and results
    called_today,     \* has calculate_peak_power been called on current_date
    powers_today,     \* the present current_power values given to the calls on current_date
    sum_input,    \* the argument s of sum_numbers_from_string
    sum_result,   \* the float it returned, once sum_done
    sum_done,
    defaults,     \* const.DEFAULT_INACTIVITY_*: [enabled, start, end]
    config,       \* the argument config of is_inactive
    now_local,    \* datetime.now() read by is_inactive, as <<hour, minute, second>>
    inactive,     \* what is_inactive returned, once gate_done
    gate_done

mqttVars == <<discovered, client, connected, last, first>>

aggVars == <<fetched, aggregated, agg_done>>

peakVars ==
    <<current_date, peak_power, last_reset_date, peak_call, called_today, powers_today>>

sumVars == <<sum_input, sum_result, sum_done>>

gateVars == <<defaults, config, now_local, inactive, gate_done>>

vars == <<mqttVars, aggVars, peakVars, sumVars, gateVars>>

(***************************************************************************)
(* Bounds of the model.                                                    *)
(***************************************************************************)
\* at most this many client.publish calls raise within one publisher call
MaxFails == 1

\* at most this many devices in the argument of aggregate_plant_data
MaxDevices == 2

\* the calendar days the peak tracker runs through
MaxDay == 3

\* the strings given to sum_numbers_from_string are built from at most this
\* many pieces
MaxPieces == 2

(***************************************************************************)
(* Strings.                                                                *)
(***************************************************************************)
None == "<None>"
Unserializable == "<object>"

Ch(s, i) == SubSeq(s, i, i)

StrTail(s) == SubSeq(s, 2, Len(s))

Upper == <<"A","B","C","D","E","F","G","H","I","J","K","L","M",
           "N","O","P","Q","R","S","T","U","V","W","X","Y","Z">>

LowerChars == <<"a","b","c","d","e","f","g","h","i","j","k","l","m",
                "n","o","p","q","r","s","t","u","v","w","x","y","z">>

LowerCh(c) ==
    IF \E i \in 1..26 : Upper[i] = c
    THEN LowerChars[CHOOSE i \in 1..26 : Upper[i] = c]
    ELSE c

\* str.lower()
RECURSIVE lower(_)
lower(s) == IF Len(s) = 0 THEN "" ELSE LowerCh(Ch(s, 1)) \o lower(StrTail(s))

\* str.replace(old, new) for a one-character old
RECURSIVE replace(_, _, _)
replace(s, old, new) ==
    IF Len(s) = 0 THEN ""
    ELSE (IF Ch(s, 1) = old THEN new ELSE Ch(s, 1)) \o replace(StrTail(s), old, new)

\* str.endswith(suffix)
endswith(s, suffix) ==
    /\ Len(s) >= Len(suffix)
    /\ SubSeq(s, Len(s) - Len(suffix) + 1, Len(s)) = suffix

(***************************************************************************)
(* const.py: the mapping tables and names the publishers import.           *)
(***************************************************************************)
UNIT_MAPPING(base) ==
    CASE base = "Power" -> "W"
      [] base = "Energy_Today" -> "kWh"
      [] base = "Energy_This_Month" -> "kWh"
      [] base = "Energy_This_Year" -> "kWh"
      [] base = "Energy_Total" -> "kWh"
      [] base = "Panel_Voltage" -> "V"
      [] base = "Panel_Current" -> "A"
      [] base = "Panel_Power" -> "W"
      [] OTHER -> None

DEVICE_CLASS_MAPPING(base) ==
    CASE base = "Power" -> "power"
      [] base = "Energy_Today" -> "energy"
      [] base = "Energy_This_Month" -> "energy"
      [] base = "Energy_This_Year" -> "energy"
      [] base = "Energy_Total" -> "energy"
      [] base = "Panel_Voltage" -> "voltage"
      [] base = "Panel_Current" -> "current"
      [] base = "Panel_Power" -> "power"
      [] OTHER -> None

MQTT_AVAILABILITY_TOPIC == "saj/status"

MQTT_PAYLOAD_ONLINE == "online"

MQTT_PAYLOAD_OFFLINE == "offline"

(***************************************************************************)
(* Inputs.  A dict is the sequence of its items in insertion order.  A     *)
(* device entry is its serial and its reading; mapping = FALSE is a        *)
(* reading that is absent or not a dict.                                   *)
(***************************************************************************)
Device(sn, items) == [sn |-> sn, mapping |-> TRUE, items |-> items]

NoReading(sn) == [sn |-> sn, mapping |-> FALSE, items |-> <<>>]

Reading1 ==
    << <<"Alias", "Roof">>, <<"Power", "312">>,
       <<"Update_time", "2024-01-01T10:00:00Z">>, <<"Firmware", "v1.2">> >>

Reading2 == << <<"PV1_Panel_Power", "130">>, <<"Pv1_Panel_Power", "120">> >>

Reading3 == << <<"Server_Time", Unserializable>> >>

DeviceDatas ==
    << <<>>,
       << Device("SN1", Reading1), Device("SN2", Reading2) >>,
       << Device("SN3", Reading3), Device("SN1", Reading1), NoReading("SN4") >> >>

(***************************************************************************)
(* Python's float: an IEEE-754 double.  A natural number of any size is    *)
(* the sequence of its bits, the lowest first.  A double is                *)
(* [neg, mant, exp] with value mant * 2^exp, mant of exactly MantBits bits *)
(* (the highest one set), or Zero.  Every operation rounds to the nearest  *)
(* double, a tie to the even mantissa.  Infinities, NaN and subnormals are *)
(* not modelled, and -0.0 is Zero (they compare equal).                    *)
(***************************************************************************)
\* the element of a one-element set: a loop binds the value of each step with
\* it, The({rest(next) : next \in {step}})
The(S) == CHOOSE x \in S : TRUE

MantBits == 53

\* b without its leading zeros
Trim(b) ==
    IF \A i \in 1..Len(b) : b[i] = 0 THEN <<>>
    ELSE SubSeq(b, 1, CHOOSE i \in 1..Len(b) :
                          b[i] = 1 /\ \A j \in (i + 1)..Len(b) : b[j] = 0)

RECURSIVE NatBits(_)
NatBits(n) == IF n = 0 THEN <<>> ELSE <<n % 2>> \o NatBits(n \div 2)

RECURSIVE BitsNat(_)
BitsNat(b) == IF Len(b) = 0 THEN 0 ELSE b[1] + 2 * BitsNat(Tail(b))

ShiftLeft(b, k) == [i \in 1..k |-> 0] \o b

\* the arithmetic works on limbs of LimbBits bits, the lowest first
LimbBits == 15

Limb == 32768

PowersOfTwo == <<1, 2, 4, 8, 16, 32, 64, 128, 256, 512, 1024, 2048, 4096, 8192, 16384>>

Limbs(b) ==
    [j \in 1..((Len(b) + LimbBits - 1) \div LimbBits) |->
        BitsNat(SubSeq(b, LimbBits * (j - 1) + 1,
                       IF LimbBits * j < Len(b) THEN LimbBits * j ELSE Len(b)))]

Bits(l) ==
    [i \in 1..(LimbBits * Len(l)) |->
        (l[(i - 1) \div LimbBits + 1] \div PowersOfTwo[((i - 1) % LimbBits) + 1]) % 2]

RECURSIVE MulLimbs(_, _, _)
MulLimbs(l, m, carry) ==
    IF Len(l) = 0 THEN (IF carry = 0 THEN <<>> ELSE <<carry>>)
    ELSE <<(l[1] * m + carry) % Limb>> \o MulLimbs(Tail(l), m, (l[1] * m + carry) \div Limb)

\* b * m + carry, for m and carry below Limb
MulSmall(b, m, carry) == Trim(Bits(MulLimbs(Limbs(b), m, carry)))

\* the limbs i..1 of l divided by d, after the remainder rem of the higher
\* limbs: the quotient's limbs, then the remainder as the last element
RECURSIVE DivLimbs(_, _, _, _)
DivLimbs(l, i, d, rem) ==
    IF i = 0 THEN <<rem>>
    ELSE <<(rem * Limb + l[i]) \div d>> \o DivLimbs(l, i - 1, d, (rem * Limb + l[i]) % d)

\* b divided by d, for d below Limb: [q, r]
DivSmall(b, d) ==
    LET l == Limbs(b)
        out == DivLimbs(l, Len(l), d, 0)
    IN  [q |-> Trim(Bits([j \in 1..Len(l) |-> out[Len(l) + 1 - j]])),
         r |-> out[Len(l) + 1]]

\* b divided by 10^tens: [q, r] where r # 0 says that the division is inexact
RECURSIVE DivPowerOfTen(_, _, _)
DivPowerOfTen(b, tens, inexact) ==
    IF tens = 0 THEN [q |-> b, r |-> inexact]
    ELSE The({DivPowerOfTen(qr.q, tens - 1, IF qr.r # 0 THEN 1 ELSE inexact) :
                 qr \in {DivSmall(b, 10)}})

RECURSIVE AddLimbs(_, _, _)
AddLimbs(a, b, carry) ==
    IF Len(a) = 0 /\ Len(b) = 0 THEN (IF carry = 0 THEN <<>> ELSE <<carry>>)
    ELSE LET t == (IF Len(a) = 0 THEN 0 ELSE a[1]) + (IF Len(b) = 0 THEN 0 ELSE b[1]) + carry
         IN  <<t % Limb>> \o AddLimbs(IF Len(a) = 0 THEN a ELSE Tail(a),
                                      IF Len(b) = 0 THEN b ELSE Tail(b), t \div Limb)

AddBits(a, b) == Trim(Bits(AddLimbs(Limbs(a), Limbs(b), 0)))

\* a - b - borrow, for a >= b + borrow
RECURSIVE SubLimbs(_, _, _)
SubLimbs(a, b, borrow) ==
    IF Len(a) = 0 THEN <<>>
    ELSE LET t == a[1] - (IF Len(b) = 0 THEN 0 ELSE b[1]) - borrow
         IN  <<t % Limb>> \o SubLimbs(Tail(a), IF Len(b) = 0 THEN b ELSE Tail(b),
                                      IF t < 0 THEN 1 ELSE 0)

SubBits(a, b) == Trim(Bits(SubLimbs(Limbs(a), Limbs(b), 0)))

\* a > b, for a and b without leading zeros
BitsGreater(a, b) ==
    \/ Len(a) > Len(b)
    \/ /\ Len(a) = Len(b)
       /\ \E i \in 1..Len(a) :
              a[i] > b[i] /\ \A j \in (i + 1)..Len(a) : a[j] = b[j]

Zero == [neg |-> FALSE, mant |-> <<>>, exp |-> 0]

\* does dropping the lowest `drop` bits of q round up: more than half, or half
\* (with nothing lost before: sticky) and an odd result
RoundsUp(q, drop, sticky) ==
    /\ drop >= 1
    /\ q[drop] = 1
    /\ \/ sticky
       \/ \E i \in 1..(drop - 1) : q[i] = 1
       \/ q[drop + 1] = 1

\* the double nearest to (q + a lost fraction, when sticky) * 2^exp
RoundBits(q0, sticky, exp, neg) ==
    LET q == Trim(q0)
        L == Len(q)
        drop == L - MantBits
        kept == SubSeq(q, drop + 1, L)
        m == IF RoundsUp(q, drop, sticky) THEN AddBits(kept, <<1>>) ELSE kept
    IN  IF L = 0 THEN Zero
        ELSE IF L <= MantBits
             THEN [neg |-> neg, mant |-> ShiftLeft(q, MantBits - L), exp |-> exp - (MantBits - L)]
        ELSE IF Len(m) > MantBits
             THEN [neg |-> neg, mant |-> SubSeq(m, 2, Len(m)), exp |-> exp + drop + 1]
        ELSE [neg |-> neg, mant |-> m, exp |-> exp + drop]

\* the double nearest to (n / 10^tens) * 2^exp
FromRatio(n0, tens, exp, neg) ==
    LET n == Trim(n0)
        k == IF tens = 0 THEN 0 ELSE MantBits + 2 + 4 * tens
        qr == DivPowerOfTen(ShiftLeft(n, k), tens, 0)
    IN  IF Len(n) = 0 THEN Zero
        ELSE RoundBits(qr.q, qr.r # 0, exp - k, neg)

\* a + b
FloatAdd(a, b) ==
    LET e == IF a.exp < b.exp THEN a.exp ELSE b.exp
        A == ShiftLeft(a.mant, a.exp - e)
        B == ShiftLeft(b.mant, b.exp - e)
    IN  IF a = Zero THEN b
        ELSE IF b = Zero THEN a
        ELSE IF a.neg = b.neg THEN RoundBits(AddBits(A, B), FALSE, e, a.neg)
        ELSE IF A = B THEN Zero
        ELSE IF BitsGreater(A, B) THEN RoundBits(SubBits(A, B), FALSE, e, a.neg)
        ELSE RoundBits(SubBits(B, A), FALSE, e, b.neg)

\* x / 1000
FloatDivThousand(x) == FromRatio(x.mant, 3, x.exp, x.neg)

\* x * p rounded to the nearest integer, a tie to the even one, for p below
\* Limb: what round(x, n) is for p = 10^n, as a count of 1/p
RoundTimes(x, p) ==
    LET num == MulSmall(x.mant, p, 0)
        drop == 0 - x.exp
        kept == IF drop >= Len(num) THEN <<>> ELSE SubSeq(num, drop + 1, Len(num))
        up == IF drop > Len(num) THEN FALSE
              ELSE RoundsUp(num \o <<0>>, drop, FALSE)
        k == IF x.exp >= 0 THEN BitsNat(ShiftLeft(num, x.exp))
             ELSE BitsNat(kept) + (IF up THEN 1 ELSE 0)
    IN  IF x = Zero THEN 0 ELSE IF x.neg THEN 0 - k ELSE k

(***************************************************************************)
(* utils.sum_numbers_from_string.                                          *)
(***************************************************************************)
\* the numbers the aggregator returns and the peak tracker works on are counts
\* of 1/NumScale
NumScale == 10000

NBSP == "~"   \* stands for U+00A0

Whitespace == {" ", "\t", "\n", "\r", NBSP}

Digits == <<"0","1","2","3","4","5","6","7","8","9">>

IsDigit(c) == \E i \in 1..10 : Digits[i] = c

DigitVal(c) == (CHOOSE i \in 1..10 : Digits[i] = c) - 1

\* str.strip()
RECURSIVE lstrip(_)
lstrip(s) == IF Len(s) > 0 /\ Ch(s, 1) \in Whitespace THEN lstrip(StrTail(s)) ELSE s

RECURSIVE rstrip(_)
rstrip(s) ==
    IF Len(s) > 0 /\ Ch(s, Len(s)) \in Whitespace
    THEN rstrip(SubSeq(s, 1, Len(s) - 1))
    ELSE s

strip(s) == rstrip(lstrip(s))

\* the index after the maximal run of digits of s that starts at i
RECURSIVE DigitsEnd(_, _)
DigitsEnd(s, i) == IF i <= Len(s) /\ IsDigit(Ch(s, i)) THEN DigitsEnd(s, i + 1) ELSE i

\* int() of a digit string
RECURSIVE IntOf(_)
IntOf(ds) ==
    IF Len(ds) = 0 THEN 0
    ELSE 10 * IntOf(SubSeq(ds, 1, Len(ds) - 1)) + DigitVal(Ch(ds, Len(ds)))

\* the digits ds as a natural number
RECURSIVE DigitsBits(_, _)
DigitsBits(ds, acc) ==
    IF Len(ds) = 0 THEN acc
    ELSE The({DigitsBits(StrTail(ds), next) :
                 next \in {MulSmall(acc, 10, DigitVal(Ch(ds, 1)))}})

\* float(p) for a token p matched by [-+]?\d+(?:\.\d+)?
float(p) ==
    LET signed == Ch(p, 1) \in {"-", "+"}
        body == IF signed THEN StrTail(p) ELSE p
        dot == DigitsEnd(body, 1)
        int_digits == SubSeq(body, 1, dot - 1)
        frac_digits == SubSeq(body, dot + 1, Len(body))
    IN  FromRatio(DigitsBits(int_digits \o frac_digits, <<>>),
                  Len(frac_digits), 0, Ch(p, 1) = "-")

\* a match that stops before the fraction
MatchEnd_IntegerOnly(ln, i) ==
    LET j0 == IF i <= Len(ln) /\ Ch(ln, i) \in {"-", "+"} THEN i + 1 ELSE i
        j1 == DigitsEnd(ln, j0)
    IN  IF j1 = j0 THEN i ELSE j1

\* the end (exclusive) of the match of [-+]?\d+(?:\.\d+)? at i, or i when none
MatchEnd(ln, i) ==
    LET j0 == IF i <= Len(ln) /\ Ch(ln, i) \in {"-", "+"} THEN i + 1 ELSE i
        j1 == DigitsEnd(ln, j0)
        j2 == DigitsEnd(ln, j1 + 1)
    IN  IF j1 = j0 THEN i
        ELSE IF j1 <= Len(ln) /\ Ch(ln, j1) = "." /\ j2 > j1 + 1 THEN j2
        ELSE j1

\* re.findall(r"[-+]?\d+(?:\.\d+)?", ln), scanning from i
RECURSIVE findall(_, _)
findall(ln, i) ==
    IF i > Len(ln) THEN <<>>
    ELSE LET e == MatchEnd(ln, i)
         IN  IF e = i THEN findall(ln, i + 1)
             ELSE <<SubSeq(ln, i, e - 1)>> \o findall(ln, e)

\* re.split(r"[\r\n]+", s), keeping the pieces that are not blank, stripped
RECURSIVE SplitLines(_, _)
SplitLines(s, cur) ==
    IF Len(s) = 0 THEN (IF strip(cur) = "" THEN <<>> ELSE <<strip(cur)>>)
    ELSE IF Ch(s, 1) \in {"\r", "\n"}
         THEN (IF strip(cur) = "" THEN <<>> ELSE <<strip(cur)>>) \o SplitLines(StrTail(s), "")
         ELSE SplitLines(StrTail(s), cur \o Ch(s, 1))

\* "for p in parts: total += float(p)"
RECURSIVE SumFloats(_, _)
SumFloats(total, parts) ==
    IF Len(parts) = 0 THEN total
    ELSE The({SumFloats(next, Tail(parts)) :
                 next \in {FloatAdd(total, float(Head(parts)))}})

\* "for ln in lines"
RECURSIVE SumLines(_, _)
SumLines(total, lines) ==
    IF Len(lines) = 0 THEN total
    ELSE The({SumLines(next, Tail(lines)) :
                 next \in {SumFloats(total, findall(Head(lines), 1))}})

sum_numbers_from_string(s) ==
    IF s = None THEN Zero
    ELSE IF strip(s) = "" THEN Zero
    ELSE SumLines(Zero, SplitLines(replace(replace(strip(s), NBSP, " "), ",", "."), ""))

(***************************************************************************)
(* datetime.strptime(value_str, "%Y-%m-%dT%H:%M:%SZ"): the datetime as the *)
(* tuple of its six fields, or NoTime where strptime raises ValueError or  *)
(* TypeError.  The format's letters match without     *)
(* regard to case; every field but the year may be written with one digit, *)
(* and the day also as a space and one digit.                              *)
(***************************************************************************)
NoTime == <<>>

\* datetime's a > b: the fields compared in order
RECURSIVE TimeAfter(_, _)
TimeAfter(a, b) ==
    /\ Len(a) > 0
    /\ \/ Head(a) > Head(b)
       \/ Head(a) = Head(b) /\ TimeAfter(Tail(a), Tail(b))

IsLeap(y) == (y % 4 = 0 /\ y % 100 # 0) \/ y % 400 = 0

DaysInMonth(y, m) ==
    IF m = 2 THEN (IF IsLeap(y) THEN 29 ELSE 28)
    ELSE IF m \in {4, 6, 9, 11} THEN 30 ELSE 31

\* a field of the format at i: [ok, val, end]; the digits run must be lo..hi long
TimeField(s, i, lo, hi) ==
    LET e == DigitsEnd(s, i)
    IN  IF e - i >= lo /\ e - i <= hi
        THEN [ok |-> TRUE, val |-> IntOf(SubSeq(s, i, e - 1)), end |-> e]
        ELSE [ok |-> FALSE, val |-> 0, end |-> i]

\* %d also matches a space followed by one digit 1-9
DayField(s, i) ==
    IF i + 1 <= Len(s) /\ Ch(s, i) = " " /\ IsDigit(Ch(s, i + 1)) /\ Ch(s, i + 1) # "0"
       /\ DigitsEnd(s, i + 1) = i + 2
    THEN [ok |-> TRUE, val |-> DigitVal(Ch(s, i + 1)), end |-> i + 2]
    ELSE TimeField(s, i, 1, 2)

\* the literal character c of the format at i
Lit(s, i, c) == i <= Len(s) /\ lower(Ch(s, i)) = lower(c)

strptime(value_str) ==
    IF value_str \in {None, Unserializable} THEN NoTime
    ELSE
    LET Y == TimeField(value_str, 1, 4, 4)
        M == TimeField(value_str, Y.end + 1, 1, 2)
        D == DayField(value_str, M.end + 1)
        h == TimeField(value_str, D.end + 1, 1, 2)
        m == TimeField(value_str, h.end + 1, 1, 2)
        sec == TimeField(value_str, m.end + 1, 1, 2)
    IN  IF /\ Y.ok /\ Lit(value_str, Y.end, "-")
           /\ M.ok /\ Lit(value_str, M.end, "-")
           /\ D.ok /\ Lit(value_str, D.end, "T")
           /\ h.ok /\ Lit(value_str, h.end, ":")
           /\ m.ok /\ Lit(value_str, m.end, ":")
           /\ sec.ok /\ Lit(value_str, sec.end, "Z")
           /\ Len(value_str) = sec.end
           /\ Y.val >= 1 /\ M.val \in 1..12
           /\ D.val >= 1 /\ D.val <= DaysInMonth(Y.val, M.val)
           /\ h.val <= 23 /\ m.val <= 59 /\ sec.val <= 59
        THEN <<Y.val, M.val, D.val, h.val, m.val, sec.val>>
        ELSE NoTime

(***************************************************************************)
(* utils.aggregate_plant_data.                                             *)
(***************************************************************************)
SummableAttributes ==
    {"Power", "Energy_Today", "Energy_This_Month", "Energy_This_Year", "Energy_Total"}

\* x / d rounded to the nearest integer, a tie to the even one
RoundDiv(x, d) ==
    LET q == x \div d
        r == x % d
    IN  IF 2 * r > d \/ (2 * r = d /\ q % 2 = 1) THEN q + 1 ELSE q

\* round(x, 3) of a power given as a count of 1/NumScale
round3(x) == RoundDiv(x, NumScale \div 1000) * (NumScale \div 1000)

\* round(x, 2) of a double, as a count of 1/NumScale
round2(x) == RoundTimes(x, 100) * (NumScale \div 100)

\* round(x / 1000, 3) of a double, as a count of 1/NumScale
round3_kw(x) == RoundTimes(FloatDivThousand(x), 1000) * (NumScale \div 1000)

\* the running totals and timestamps before the first device
AggInit ==
    [plant_sum_power |-> Zero, plant_sum_energy_today |-> Zero,
     plant_sum_energy_month |-> Zero, plant_sum_energy_year |-> Zero,
     plant_sum_energy_total |-> Zero, plant_sum_panel_power |-> Zero,
     latest_update_time_str |-> None, latest_server_time_str |-> None,
     compare_update_time_obj |-> NoTime, compare_server_time_obj |-> NoTime]

\* the sums with the panel total replaced, not added to
AggSum_PanelOverwrites(a, attribute, value_str) ==
    LET is_summable_numeric ==
            attribute \in SummableAttributes \/ endswith(attribute, "_Panel_Power")
        value_float == sum_numbers_from_string(value_str)
    IN  IF ~(is_summable_numeric /\ value_str # None) THEN a
        ELSE IF attribute = "Power"
             THEN [a EXCEPT !.plant_sum_power = FloatAdd(@, value_float)]
        ELSE IF attribute = "Energy_Today"
             THEN [a EXCEPT !.plant_sum_energy_today = FloatAdd(@, value_float)]
        ELSE IF attribute = "Energy_This_Month"
             THEN [a EXCEPT !.plant_sum_energy_month = FloatAdd(@, value_float)]
        ELSE IF attribute = "Energy_This_Year"
             THEN [a EXCEPT !.plant_sum_energy_year = FloatAdd(@, value_float)]
        ELSE IF attribute = "Energy_Total"
             THEN [a EXCEPT !.plant_sum_energy_total = FloatAdd(@, value_float)]
        ELSE [a EXCEPT !.plant_sum_panel_power = value_float]

\* the body of "for attribute, value_str in latest_row_data.items()": the sums
AggSum(a, attribute, value_str) ==
    LET is_summable_numeric ==
            attribute \in SummableAttributes \/ endswith(attribute, "_Panel_Power")
        value_float == sum_numbers_from_string(value_str)
    IN  IF ~(is_summable_numeric /\ value_str # None) THEN a
        ELSE IF attribute = "Power"
             THEN [a EXCEPT !.plant_sum_power = FloatAdd(@, value_float)]
        ELSE IF attribute = "Energy_Today"
             THEN [a EXCEPT !.plant_sum_energy_today = FloatAdd(@, value_float)]
        ELSE IF attribute = "Energy_This_Month"
             THEN [a EXCEPT !.plant_sum_energy_month = FloatAdd(@, value_float)]
        ELSE IF attribute = "Energy_This_Year"
             THEN [a EXCEPT !.plant_sum_energy_year = FloatAdd(@, value_float)]
        ELSE IF attribute = "Energy_Total"
             THEN [a EXCEPT !.plant_sum_energy_total = FloatAdd(@, value_float)]
        ELSE [a EXCEPT !.plant_sum_panel_power = FloatAdd(@, value_float)]

\* the same body: the latest timestamp
AggTime_FallbackOverwrites(a, attribute, value_str) ==
    LET current_time_obj == strptime(value_str)
    IN  IF attribute \notin {"Update_time", "Server_Time"} THEN a
        ELSE IF value_str \in {None, ""} THEN a
        ELSE IF current_time_obj # NoTime
        THEN IF attribute = "Update_time"
             THEN IF a.compare_update_time_obj = NoTime
                     \/ TimeAfter(current_time_obj, a.compare_update_time_obj)
                  THEN [a EXCEPT !.compare_update_time_obj = current_time_obj,
                                 !.latest_update_time_str = value_str]
                  ELSE a
             ELSE IF a.compare_server_time_obj = NoTime
                     \/ TimeAfter(current_time_obj, a.compare_server_time_obj)
                  THEN [a EXCEPT !.compare_server_time_obj = current_time_obj,
                                 !.latest_server_time_str = value_str]
                  ELSE a
        ELSE IF attribute = "Update_time"
             THEN [a EXCEPT !.latest_update_time_str = value_str]
        ELSE [a EXCEPT !.latest_server_time_str = value_str]

\* a fallback that also takes the empty string
AggTime_FallbackTakesEmpty(a, attribute, value_str) ==
    LET current_time_obj == strptime(value_str)
    IN  IF attribute \notin {"Update_time", "Server_Time"} THEN a
        ELSE IF value_str = None THEN a
        ELSE IF current_time_obj # NoTime
        THEN IF attribute = "Update_time"
             THEN IF a.compare_update_time_obj = NoTime
                     \/ TimeAfter(current_time_obj, a.compare_update_time_obj)
                  THEN [a EXCEPT !.compare_update_time_obj = current_time_obj,
                                 !.latest_update_time_str = value_str]
                  ELSE a
             ELSE IF a.compare_server_time_obj = NoTime
                     \/ TimeAfter(current_time_obj, a.compare_server_time_obj)
                  THEN [a EXCEPT !.compare_server_time_obj = current_time_obj,
                                 !.latest_server_time_str = value_str]
                  ELSE a
        ELSE IF attribute = "Update_time" /\ a.latest_update_time_str = None
             THEN [a EXCEPT !.latest_update_time_str = value_str]
        ELSE IF attribute = "Server_Time" /\ a.latest_server_time_str = None
             THEN [a EXCEPT !.latest_server_time_str = value_str]
        ELSE a

AggTime(a, attribute, value_str) ==
    LET current_time_obj == strptime(value_str)
    IN  IF attribute \notin {"Update_time", "Server_Time"} THEN a
        ELSE IF value_str \in {None, ""} THEN a
        ELSE IF current_time_obj # NoTime
        THEN IF attribute = "Update_time"
             THEN IF a.compare_update_time_obj = NoTime
                     \/ TimeAfter(current_time_obj, a.compare_update_time_obj)
                  THEN [a EXCEPT !.compare_update_time_obj = current_time_obj,
                                 !.latest_update_time_str = value_str]
                  ELSE a
             ELSE IF a.compare_server_time_obj = NoTime
                     \/ TimeAfter(current_time_obj, a.compare_server_time_obj)
                  THEN [a EXCEPT !.compare_server_time_obj = current_time_obj,
                                 !.latest_server_time_str = value_str]
                  ELSE a
        ELSE IF attribute = "Update_time" /\ a.latest_update_time_str = None
             THEN [a EXCEPT !.latest_update_time_str = value_str]
        ELSE IF attribute = "Server_Time" /\ a.latest_server_time_str = None
             THEN [a EXCEPT !.latest_server_time_str = value_str]
        ELSE a

\* an attribute name that is not a str (the int 7): attribute.endswith raises
\* AttributeError, which the inner handler does not catch
NonStringKey == "<7>"

\* "for attribute, value_str in latest_row_data.items()" inside the outer try:
\* "except Exception" ends the device, keeping what was accumulated
RECURSIVE AggAttributes_StopsAtParseError(_, _)
AggAttributes_StopsAtParseError(a, items) ==
    IF Len(items) = 0 THEN a
    ELSE IF Head(items)[1] = NonStringKey THEN a
    ELSE IF Head(items)[1] \in {"Update_time", "Server_Time"}
            /\ Head(items)[2] \notin {None, ""} /\ strptime(Head(items)[2]) = NoTime
         THEN a
    ELSE AggAttributes_StopsAtParseError(
             AggTime(AggSum(a, Head(items)[1], Head(items)[2]),
                     Head(items)[1], Head(items)[2]),
             Tail(items))

RECURSIVE AggAttributes(_, _)
AggAttributes(a, items) ==
    IF Len(items) = 0 THEN a
    ELSE IF Head(items)[1] = NonStringKey THEN a
    ELSE The({AggAttributes(next, Tail(items)) :
                 next \in {AggTime(AggSum(a, Head(items)[1], Head(items)[2]),
                                   Head(items)[1], Head(items)[2])}})

RECURSIVE AggDevices(_, _)
AggDevices(a, fetched_data) ==
    IF Len(fetched_data) = 0 THEN a
    ELSE LET d == Head(fetched_data)
         IN  IF ~d.mapping \/ Len(d.items) = 0
             THEN AggDevices(a, Tail(fetched_data))
             ELSE The({AggDevices(next, Tail(fetched_data)) :
                          next \in {AggAttributes(a, d.items)}})

\* the dict returned, as the sequence of its items
AggResult_OmitsUnsetTimes(a) ==
    << <<"Power", round3_kw(a.plant_sum_power)>>,
       <<"Energy_Today", round2(a.plant_sum_energy_today)>>,
       <<"Energy_This_Month", round2(a.plant_sum_energy_month)>>,
       <<"Energy_This_Year", round2(a.plant_sum_energy_year)>>,
       <<"Energy_Total", round2(a.plant_sum_energy_total)>>,
       <<"Panel_Power", round3_kw(a.plant_sum_panel_power)>> >>
    \o (IF a.latest_update_time_str = None THEN <<>>
        ELSE << <<"Update_time", a.latest_update_time_str>> >>)
    \o (IF a.latest_server_time_str = None THEN <<>>
        ELSE << <<"Server_Time", a.latest_server_time_str>> >>)

AggResult(a) ==
    << <<"Power", round3_kw(a.plant_sum_power)>>,
       <<"Energy_Today", round2(a.plant_sum_energy_today)>>,
       <<"Energy_This_Month", round2(a.plant_sum_energy_month)>>,
       <<"Energy_This_Year", round2(a.plant_sum_energy_year)>>,
       <<"Energy_Total", round2(a.plant_sum_energy_total)>>,
       <<"Panel_Power", round3_kw(a.plant_sum_panel_power)>>,
       <<"Update_time", a.latest_update_time_str>>,
       <<"Server_Time", a.latest_server_time_str>> >>

\* the argument: None, or a dict as the sequence of its device entries
NoFetched == [is_none |-> TRUE, devices |-> <<>>]

Fetched(devices) == [is_none |-> FALSE, devices |-> devices]

aggregate_plant_data(fetched_data) ==
    IF fetched_data.is_none \/ fetched_data.devices = <<>> THEN <<>>
    ELSE AggResult(AggDevices(AggInit, fetched_data.devices))

\* the plant summary the caller hands to the publishers with DeviceDatas[d]: the
\* aggregate of those readings
PlantDatas == [d \in 1..Len(DeviceDatas) |-> aggregate_plant_data(Fetched(DeviceDatas[d]))]

(***************************************************************************)
(* The calls made on the MQTT client, as records: kind "config" is a       *)
(* discovery publish of the sensor id, "device_state", "plant_state" and   *)
(* "peak_state" are state publishes; ok is FALSE where the call raised.    *)
(***************************************************************************)
Pub(kind, id, retain, ok, unit, device_class) ==
    [kind |-> kind, id |-> id, qos |-> 1, retain |-> retain, ok |-> ok,
     unit |-> unit, device_class |-> device_class]

ClientCall(kind, id, retain, ok) ==
    [kind |-> kind, id |-> id, qos |-> 1, retain |-> retain, ok |-> ok,
     unit |-> None, device_class |-> None]

\* does the n-th client.publish of this call raise
Raises(calls, fails) == (Len(calls) + 1) \in fails

(***************************************************************************)
(* mqtt_utils.publish_discovery.  st is [disc, calls, raised]: the         *)
(* discovered set, the client calls made so far, and whether an exception  *)
(* has left the function.                                                  *)
(***************************************************************************)
\* attribute.lower().replace(" ", "_").replace("-", "_").replace(".", "_")
slugify(attribute) ==
    replace(replace(replace(lower(attribute), " ", "_"), "-", "_"), ".", "_")

\* the attribute names of the readings and of the plant summary, and their
\* slugs computed once
RECURSIVE Keys(_)
Keys(items) == IF Len(items) = 0 THEN {} ELSE {Head(items)[1]} \cup Keys(Tail(items))

AttributeNames ==
    UNION {UNION {Keys(DeviceDatas[d][i].items) : i \in 1..Len(DeviceDatas[d])} :
               d \in 1..Len(DeviceDatas)}
    \cup {"Power", "Energy_Today", "Energy_This_Month", "Energy_This_Year", "Energy_Total",
          "Panel_Power", "Update_time", "Server_Time"}

SlugOf == [a \in AttributeNames |-> slugify(a)]

attribute_slug(attribute) == SlugOf[attribute]

device_unique_id(sn, attribute) == "saj_" \o sn \o "_" \o attribute_slug(attribute)

plant_unique_id(attribute) == "saj_plant_" \o attribute_slug(attribute)

peak_unique_id == "saj_plant_peak_power_today"

\* the loop over panel_suffixes
base_attribute(attribute) ==
    IF endswith(attribute, "_Panel_Voltage") THEN "Panel_Voltage"
    ELSE IF endswith(attribute, "_Panel_Current") THEN "Panel_Current"
    ELSE IF endswith(attribute, "_Panel_Power") THEN "Panel_Power"
    ELSE attribute

TimestampAttributes == {"Update_time", "Server_Time"}

\* try: client.publish(discovery_topic, ...); _DISCOVERED_ENTITIES.add(unique_id)
\* except Exception: log
ConfigPublish_NoAdd(st, unique_id, unit, device_class, fails) ==
    [st EXCEPT !.calls = Append(@, Pub("config", unique_id, TRUE, ~Raises(st.calls, fails),
                                       unit, device_class))]

ConfigPublish_NoCatch(st, unique_id, unit, device_class, fails) ==
    IF Raises(st.calls, fails)
    THEN [st EXCEPT !.calls = Append(@, Pub("config", unique_id, TRUE, FALSE, unit, device_class)),
                    !.raised = TRUE]
    ELSE [st EXCEPT !.calls = Append(@, Pub("config", unique_id, TRUE, TRUE, unit, device_class)),
                    !.disc = @ \cup {unique_id}]

\* a publish whose unique id counts as discovered although it raised
ConfigPublish_AddsOnFailure(st, unique_id, unit, device_class, fails) ==
    [st EXCEPT !.calls = Append(@, Pub("config", unique_id, TRUE, ~Raises(st.calls, fails),
                                       unit, device_class)),
               !.disc = @ \cup {unique_id}]

ConfigPublish(st, unique_id, unit, device_class, fails) ==
    IF Raises(st.calls, fails)
    THEN [st EXCEPT !.calls = Append(@, Pub("config", unique_id, TRUE, FALSE, unit, device_class))]
    ELSE [st EXCEPT !.calls = Append(@, Pub("config", unique_id, TRUE, TRUE, unit, device_class)),
                    !.disc = @ \cup {unique_id}]

\* the body with the tables read at the attribute's full name
DiscoverDeviceAttribute_FullNameLookup(st, sn, attribute, fails) ==
    LET unique_id == device_unique_id(sn, attribute)
        unit == UNIT_MAPPING(attribute)
        device_class == DEVICE_CLASS_MAPPING(attribute)
    IN  IF attribute = "Alias" THEN st
        ELSE IF unique_id \in st.disc THEN st
        ELSE IF unit = None /\ device_class = None /\ attribute \notin TimestampAttributes
             THEN st
        ELSE ConfigPublish(st, unique_id, unit,
                           IF attribute \in TimestampAttributes THEN "timestamp"
                           ELSE device_class,
                           fails)

\* the body of "for attribute, value in data.items()"
DiscoverDeviceAttribute(st, sn, attribute, fails) ==
    LET unique_id == device_unique_id(sn, attribute)
        unit == UNIT_MAPPING(base_attribute(attribute))
        device_class == DEVICE_CLASS_MAPPING(base_attribute(attribute))
    IN  IF attribute = "Alias" THEN st
        ELSE IF unique_id \in st.disc THEN st
        ELSE IF unit = None /\ device_class = None /\ attribute \notin TimestampAttributes
             THEN st
        ELSE ConfigPublish(st, unique_id, unit,
                           IF attribute \in TimestampAttributes THEN "timestamp"
                           ELSE device_class,
                           fails)

RECURSIVE DiscoverDeviceAttributes(_, _, _, _)
DiscoverDeviceAttributes(st, sn, items, fails) ==
    IF Len(items) = 0 \/ st.raised THEN st
    ELSE The({DiscoverDeviceAttributes(next, sn, Tail(items), fails) :
                 next \in {DiscoverDeviceAttribute(st, sn, Head(items)[1], fails)}})

\* "for sn, data in device_data.items()": data.get raises on a reading that is
\* no dict, outside any try
RECURSIVE DiscoverDevices(_, _, _)
DiscoverDevices(st, device_data, fails) ==
    IF Len(device_data) = 0 \/ st.raised THEN st
    ELSE LET d == Head(device_data)
         IN  IF ~d.mapping THEN [st EXCEPT !.raised = TRUE]
             ELSE The({DiscoverDevices(next, Tail(device_data), fails) :
                          next \in {DiscoverDeviceAttributes(st, d.sn, d.items, fails)}})

\* the body of "for attribute, value in plant_data.items()"
DiscoverPlantAttribute(st, attribute, fails) ==
    LET unique_id == plant_unique_id(attribute)
        unit == IF attribute \in {"Power", "Panel_Power"} THEN "kW"
                ELSE UNIT_MAPPING(attribute)
        device_class == DEVICE_CLASS_MAPPING(attribute)
    IN  IF unique_id \in st.disc THEN st
        ELSE IF unit = None /\ device_class = None /\ attribute \notin TimestampAttributes
             THEN st
        ELSE ConfigPublish(st, unique_id, unit,
                           IF attribute \in TimestampAttributes THEN "timestamp"
                           ELSE device_class,
                           fails)

RECURSIVE DiscoverPlant(_, _, _)
DiscoverPlant(st, items, fails) ==
    IF Len(items) = 0 \/ st.raised THEN st
    ELSE The({DiscoverPlant(next, Tail(items), fails) :
                 next \in {DiscoverPlantAttribute(st, Head(items)[1], fails)}})

DiscoverPeak(st, fails) ==
    IF st.raised \/ peak_unique_id \in st.disc THEN st
    ELSE ConfigPublish(st, peak_unique_id, "kW", DEVICE_CLASS_MAPPING("Power"), fails)

\* is_client: "client" is not None and client.is_connected().  An exception that
\* leaves a loop (st.raised) ends the call.
publish_discovery_NoGuard(disc, is_client, device_data, plant_data, fails) ==
    DiscoverPeak(
        DiscoverPlant(
            DiscoverDevices([disc |-> disc, calls |-> <<>>, raised |-> FALSE],
                            device_data, fails),
            plant_data, fails),
        fails)

publish_discovery_ClearsWhenOffline(disc, is_client, device_data, plant_data, fails) ==
    IF ~is_client THEN [disc |-> {}, calls |-> <<>>, raised |-> FALSE]
    ELSE publish_discovery_NoGuard(disc, is_client, device_data, plant_data, fails)

publish_discovery(disc, is_client, device_data, plant_data, fails) ==
    LET st0 == [disc |-> disc, calls |-> <<>>, raised |-> FALSE]
    IN  IF ~is_client THEN st0
        ELSE The({DiscoverPeak(st2, fails) :
                     st2 \in {DiscoverPlant(st1, plant_data, fails) :
                                 st1 \in {DiscoverDevices(st0, device_data, fails)}}})

(***************************************************************************)
(* mqtt_utils.publish_state.  st is [calls, raised].                       *)
(***************************************************************************)
\* json.dumps(data) of a reading returns
Serializable(items) == \A i \in 1..Len(items) : items[i][2] # Unserializable

\* json.dumps(plant_data) returns: the totals are floats, the two timestamps are
\* whatever the readings carried
PlantSerializable(items) ==
    \A i \in 1..Len(items) :
        items[i][1] \in TimestampAttributes => items[i][2] # Unserializable

StatePublish(st, kind, id, retain, fails) ==
    [st EXCEPT !.calls = Append(@, ClientCall(kind, id, retain, ~Raises(st.calls, fails)))]

\* a device loop that ends at the first reading it cannot publish
RECURSIVE StateDevices_StopsAtFailure(_, _, _)
StateDevices_StopsAtFailure(st, device_data, fails) ==
    IF Len(device_data) = 0 THEN st
    ELSE LET d == Head(device_data)
         IN  IF ~d.mapping \/ ~Serializable(d.items)
             THEN st
             ELSE StateDevices_StopsAtFailure(
                      StatePublish(st, "device_state", d.sn, FALSE, fails),
                      Tail(device_data), fails)

\* "for sn, data in device_data.items()": data.get on a reading that is no dict
\* raises inside the try, a reading json.dumps rejects is skipped
RECURSIVE StateDevices(_, _, _)
StateDevices(st, device_data, fails) ==
    IF Len(device_data) = 0 THEN st
    ELSE LET d == Head(device_data)
         IN  IF ~d.mapping \/ ~Serializable(d.items)
             THEN StateDevices(st, Tail(device_data), fails)
             ELSE StateDevices(StatePublish(st, "device_state", d.sn, FALSE, fails),
                               Tail(device_data), fails)

StatePlant(st, plant_data, fails) ==
    IF PlantSerializable(plant_data)
    THEN StatePublish(st, "plant_state", "plant", FALSE, fails)
    ELSE st

\* a peak publish that is not retained
StatePeak_NotRetained(st, fails) ==
    StatePublish(st, "peak_state", "peak_power_today", FALSE, fails)

StatePeak(st, fails) == StatePublish(st, "peak_state", "peak_power_today", TRUE, fails)

publish_state(is_client, device_data, plant_data, fails) ==
    LET st0 == [calls |-> <<>>, raised |-> FALSE]
    IN  IF ~is_client THEN st0
        ELSE StatePeak(StatePlant(StateDevices(st0, device_data, fails), plant_data, fails),
                       fails)

(***************************************************************************)
(* mqtt_utils.connect_mqtt: the client calls it makes and what it returns, *)
(* for each way the broker can answer.                                     *)
(***************************************************************************)
ConnectOutcomes ==
    {"no_config", "bad_port", "connect_raises", "loop_start_raises", "not_connected",
     "publish_raises", "connected"}

\* "except Exception: if client: client.loop_stop(); return None"
ConnectFailed(calls) ==
    [client |-> "none", raised |-> FALSE,
     calls |-> Append(calls, ClientCall("loop_stop", "", FALSE, TRUE))]

connect_mqtt(outcome) ==
    LET will == <<ClientCall("will_set", MQTT_PAYLOAD_OFFLINE, TRUE, TRUE)>>
        connect == Append(will, ClientCall("connect", "", FALSE, outcome # "connect_raises"))
        loop_start == Append(connect, ClientCall("loop_start", "", FALSE,
                                                 outcome # "loop_start_raises"))
        is_connected == Append(loop_start, ClientCall("is_connected", "", FALSE,
                                                      outcome # "not_connected"))
        publish == Append(is_connected, ClientCall("availability", MQTT_PAYLOAD_ONLINE, TRUE,
                                                   outcome # "publish_raises"))
    IN  \* get_mqtt_config: int(port) of a port that is no number raises
        IF outcome = "bad_port" THEN [client |-> "none", raised |-> TRUE, calls |-> <<>>]
        \* "if not mqtt_config: return None"
        ELSE IF outcome = "no_config" THEN [client |-> "none", raised |-> FALSE, calls |-> <<>>]
        ELSE IF outcome = "connect_raises" THEN ConnectFailed(connect)
        ELSE IF outcome = "loop_start_raises" THEN ConnectFailed(loop_start)
        \* "else: client.loop_stop(); return None"
        ELSE IF outcome = "not_connected" THEN ConnectFailed(is_connected)
        ELSE IF outcome = "publish_raises" THEN ConnectFailed(publish)
        ELSE [client |-> "client", raised |-> FALSE, calls |-> publish]

(***************************************************************************)
(* utils.calculate_peak_power.  A power is [is_none, value], the value in  *)
(* 1/NumScale kW; a date is a day number, NoDate is None.                  *)
(***************************************************************************)
NoDate == 0

NoPower == [is_none |-> TRUE, value |-> 0]

Kw(x) == [is_none |-> FALSE, value |-> x]

\* "if new_reset_date is None or new_reset_date != current_date"
IsNewDay_NotNone(last_reset, today) == last_reset # NoDate /\ last_reset # today

IsNewDay_Always(last_reset, today) == TRUE

IsNewDay(last_reset, today) == last_reset = NoDate \/ last_reset # today

\* "if current_power is not None and current_power > new_peak"
IsHigher_OrEqual(current_power, new_peak) ==
    ~current_power.is_none /\ current_power.value >= new_peak

IsHigher(current_power, new_peak) == ~current_power.is_none /\ current_power.value > new_peak

calculate_peak_power_KeepsPeak(current_power, previous_peak, last_reset, today) ==
    LET reset == IsNewDay(last_reset, today)
        update == IsHigher(current_power, previous_peak)
    IN  [new_peak |-> IF update THEN round3(current_power.value) ELSE previous_peak,
         new_reset_date |-> IF reset THEN today ELSE last_reset,
         state_changed |-> reset \/ update,
         reset |-> reset]

calculate_peak_power_Unrounded(current_power, previous_peak, last_reset, today) ==
    LET reset == IsNewDay(last_reset, today)
        peak0 == IF reset THEN 0 ELSE previous_peak
        update == IsHigher(current_power, peak0)
    IN  [new_peak |-> IF update THEN current_power.value ELSE peak0,
         new_reset_date |-> IF reset THEN today ELSE last_reset,
         state_changed |-> reset \/ update,
         reset |-> reset]

calculate_peak_power(current_power, previous_peak, last_reset, today) ==
    LET reset == IsNewDay(last_reset, today)
        peak0 == IF reset THEN 0 ELSE previous_peak
        update == IsHigher(current_power, peak0)
    IN  [new_peak |-> IF update THEN round3(current_power.value) ELSE peak0,
         new_reset_date |-> IF reset THEN today ELSE last_reset,
         state_changed |-> reset \/ update,
         reset |-> reset]

(***************************************************************************)
(* The publishers as a state machine.                                      *)
(***************************************************************************)
NoCall ==
    [op |-> "none", dev |-> 0, conn |-> FALSE, pre |-> {},
     calls |-> <<>>, raised |-> FALSE]

\* which client.publish calls of one publisher call raise: their positions
RECURSIVE FailSetsUpTo(_, _)
FailSetsUpTo(n, k) ==
    IF k = 0 THEN {{}}
    ELSE LET smaller == FailSetsUpTo(n, k - 1)
         IN  smaller \cup {F \cup {i} : F \in smaller, i \in 1..n}

FailSets(n) == FailSetsUpTo(n, MaxFails)

IsClient == client = "client" /\ connected

AggIdle ==
    /\ fetched = NoFetched
    /\ aggregated = <<>>
    /\ agg_done = FALSE

NoPeakCall ==
    [made |-> FALSE, current_power |-> NoPower, previous_peak |-> 0,
     previous_reset |-> NoDate, today |-> 0, first_today |-> FALSE,
     new_peak |-> 0, new_reset_date |-> NoDate, state_changed |-> FALSE,
     reset |-> FALSE]

PeakIdle ==
    /\ current_date = 1
    /\ peak_power = 0
    /\ last_reset_date = NoDate
    /\ peak_call = NoPeakCall
    /\ called_today = FALSE
    /\ powers_today = {}

MqttIdle ==
    /\ discovered = {}
    /\ client = "none"
    /\ connected = FALSE
    /\ last = NoCall
    /\ first = NoCall

SumIdle ==
    /\ sum_input = None
    /\ sum_result = Zero
    /\ sum_done = FALSE

GateIdle ==
    /\ defaults = [enabled |-> FALSE, start |-> "", end |-> ""]
    /\ config = [k \in {} |-> ""]
    /\ now_local = <<0, 0, 0>>
    /\ inactive = FALSE
    /\ gate_done = FALSE

Init == MqttIdle /\ AggIdle /\ PeakIdle /\ SumIdle /\ GateIdle

ConnectMqtt ==
    /\ client = "none"
    /\ \E outcome \in ConnectOutcomes :
         LET r == connect_mqtt(outcome)
         IN  /\ client' = r.client
             /\ connected' = (r.client = "client")
             /\ last' = [op |-> "connect", dev |-> 0,
                         conn |-> (r.client = "client"), pre |-> discovered,
                         calls |-> r.calls, raised |-> r.raised]
    /\ first' = NoCall
    /\ UNCHANGED <<discovered, aggVars, peakVars, sumVars, gateVars>>

\* the client's network loop loses the broker
ConnectionLost ==
    /\ client = "client" /\ connected
    /\ connected' = FALSE
    /\ UNCHANGED <<discovered, client, last, first, aggVars, peakVars, sumVars, gateVars>>

\* the client's network loop reconnects
Reconnected ==
    /\ client = "client" /\ ~connected
    /\ connected' = TRUE
    /\ UNCHANGED <<discovered, client, last, first, aggVars, peakVars, sumVars, gateVars>>

\* the positions at which a client.publish of one publisher call can raise: as
\* many as the call makes publishes when none raises, and for publish_discovery
\* MaxFails more (a sensor whose publish raised is published again when another
\* attribute has the same unique id)
DiscoveryPublishes ==
    [d \in 1..Len(DeviceDatas) |->
        Len(publish_discovery({}, TRUE, DeviceDatas[d], PlantDatas[d], {}).calls) + MaxFails]

StatePublishes ==
    [d \in 1..Len(DeviceDatas) |->
        Len(publish_state(TRUE, DeviceDatas[d], PlantDatas[d], {}).calls)]

\* publish_discovery with the d-th input, the publishes at the positions of
\* fails raising
Discovery(d, fails) ==
    /\ \E r \in {publish_discovery(discovered, IsClient, DeviceDatas[d],
                                     PlantDatas[d], fails)} :
           /\ discovered' = r.disc
           /\ last' = [op |-> "discovery", dev |-> d, conn |-> IsClient,
                       pre |-> discovered, calls |-> r.calls,
                       raised |-> r.raised]
           /\ first' = IF last.op = "discovery" /\ last.dev = d
                       THEN last ELSE NoCall
    /\ UNCHANGED <<client, connected, aggVars, peakVars, sumVars, gateVars>>

PublishDiscovery ==
    \E d \in 1..Len(DeviceDatas) : \E fails \in FailSets(DiscoveryPublishes[d]) :
        Discovery(d, fails)

PublishState ==
    /\ \E d \in 1..Len(DeviceDatas) : \E fails \in FailSets(StatePublishes[d]) :
         \E r \in {publish_state(IsClient, DeviceDatas[d], PlantDatas[d], fails)} :
           /\ last' = [op |-> "state", dev |-> d, conn |-> IsClient,
                       pre |-> discovered, calls |-> r.calls,
                       raised |-> r.raised]
    /\ first' = NoCall
    /\ UNCHANGED <<discovered, client, connected, aggVars, peakVars, sumVars, gateVars>>

Next ==
    \/ ConnectMqtt
    \/ ConnectionLost
    \/ Reconnected
    \/ PublishDiscovery
    \/ PublishState

Spec == Init /\ [][Next]_vars

(***************************************************************************)
(* Properties of the discovery publisher.                                  *)
(***************************************************************************)
ConfigCalls(call) == {i \in 1..Len(call.calls) : call.calls[i].kind = "config"}

\* how many config publishes of the unique id a call made
ConfigCount(call, id) == Cardinality({i \in ConfigCalls(call) : call.calls[i].id = id})

\* the unique ids a call published and was answered for
Published(call) == {call.calls[i].id : i \in {j \in ConfigCalls(call) : call.calls[j].ok}}

Attempted(call) == {call.calls[i].id : i \in ConfigCalls(call)}

NoPublishRaised(call) == \A i \in 1..Len(call.calls) : call.calls[i].ok

\* the sensors of an input: the unique ids a first discovery of it announces
SensorIds(d) ==
    Attempted([calls |-> publish_discovery({}, TRUE, DeviceDatas[d], PlantDatas[d], {}).calls])

AllIds == UNION {SensorIds(d) : d \in 1..Len(DeviceDatas)}

AllMappings(d) == \A i \in 1..Len(DeviceDatas[d]) : DeviceDatas[d][i].mapping

\* C1: two consecutive publish_discovery calls with the same device_data and
\* plant_data on a connected client whose publish never raises publish each
\* sensor's config exactly once in total (never, when it was discovered before
\* the first call), and the second call publishes nothing.
C1_DiscoveryIdempotent ==
    (/\ first.op = "discovery" /\ last.op = "discovery"
     /\ first.conn /\ last.conn
     /\ NoPublishRaised(first) /\ NoPublishRaised(last))
    => /\ last.calls = <<>>
       /\ \A id \in AllIds \cup discovered :
            ConfigCount(first, id) + ConfigCount(last, id)
              = IF id \in SensorIds(last.dev) \ first.pre THEN 1 ELSE 0

C1_Witness ==
    /\ first.op = "discovery" /\ last.op = "discovery"
    /\ first.conn /\ last.conn
    /\ NoPublishRaised(first) /\ NoPublishRaised(last)
    /\ Len(first.calls) > 1
    /\ last.calls = <<>>

\* C2: in a publish_discovery call on a connected client (every reading a
\* mapping), the discovered set grows by exactly the unique ids whose config
\* publish returned; an id whose publish raised is not added, no exception
\* leaves the call, and every sensor of the input not discovered before is
\* still attempted.
C2_AddedIffPublished ==
    (last.op = "discovery" /\ last.conn /\ AllMappings(last.dev))
    => /\ discovered = last.pre \cup Published(last)
       /\ ~last.raised
       /\ SensorIds(last.dev) \subseteq last.pre \cup Attempted(last)

C2_Witness ==
    /\ last.op = "discovery" /\ last.conn /\ AllMappings(last.dev)
    /\ \E i \in ConfigCalls(last) :
         /\ ~last.calls[i].ok
         /\ last.calls[i].id \notin discovered
         /\ i < Len(last.calls)
         /\ last.calls[Len(last.calls)].id = peak_unique_id
         /\ last.calls[Len(last.calls)].ok

\* C3: no step removes an id from the discovered set.
C3_DiscoveredMonotonic == [][discovered \subseteq discovered']_vars

C3_Witness ==
    /\ discovered # {}
    /\ last.op = "discovery" /\ ~last.conn
    /\ \E i \in 1..Len(first.calls) : ~first.calls[i].ok

\* C4: with no client, or a client that is not connected, publish_discovery
\* and publish_state make no client call, leave the discovered set as it was
\* and raise nothing.
C4_NoOpWhenDisconnected ==
    (last.op \in {"discovery", "state"} /\ ~last.conn)
    => /\ last.calls = <<>>
       /\ discovered = last.pre
       /\ ~last.raised

C4_Witness ==
    /\ last.op = "discovery" /\ ~last.conn
    /\ client = "client" /\ ~connected
    /\ last.dev = Len(DeviceDatas)
    /\ discovered # {}

(***************************************************************************)
(* The peak tracker with its caller: the caller keeps the peak and the     *)
(* reset date the last call returned and passes them to the next call; the *)
(* calendar date advances between calls.                                   *)
(***************************************************************************)
\* the peak the caller holds before the first call
InitialPeaks == {0 - 20, 0, 90000}

PowerInputs ==
    {NoPower, Kw(0 - 14), Kw(0), Kw(4), Kw(6), Kw(10000), Kw(12346), Kw(90000)}

InitPeak ==
    /\ SumIdle /\ GateIdle
    /\ MqttIdle /\ AggIdle
    /\ current_date = 1
    /\ peak_power \in InitialPeaks
    /\ last_reset_date = NoDate
    /\ peak_call = NoPeakCall
    /\ called_today = FALSE
    /\ powers_today = {}

PeakCall ==
    /\ \E current_power \in PowerInputs :
         LET r == calculate_peak_power(current_power, peak_power, last_reset_date,
                                       current_date)
         IN  /\ powers_today' = (IF called_today THEN powers_today ELSE {})
                                    \cup (IF current_power.is_none THEN {}
                                          ELSE {current_power.value})
             /\ peak_power' = r.new_peak
             /\ last_reset_date' = r.new_reset_date
             /\ peak_call' = [made |-> TRUE, current_power |-> current_power,
                              previous_peak |-> peak_power,
                              previous_reset |-> last_reset_date,
                              today |-> current_date, first_today |-> ~called_today,
                              new_peak |-> r.new_peak,
                              new_reset_date |-> r.new_reset_date,
                              state_changed |-> r.state_changed, reset |-> r.reset]
    /\ called_today' = TRUE
    /\ UNCHANGED <<current_date, mqttVars, aggVars, sumVars, gateVars>>

\* midnight passes
DayAdvance ==
    /\ current_date < MaxDay
    /\ current_date' = current_date + 1
    /\ called_today' = FALSE
    /\ UNCHANGED <<peak_power, last_reset_date, peak_call, powers_today,
                   mqttVars, aggVars, sumVars, gateVars>>

NextPeak == PeakCall \/ DayAdvance

SpecPeak == InitPeak /\ [][NextPeak]_vars

\* C5: a call whose previous reset date is absent or is not today returns
\* today as the reset date, changed = true, and a peak computed from 0.0: the
\* current power rounded to 3 decimals when it is present and > 0.0, else 0.0.
C5_ResetCheck ==
    (peak_call.made
     /\ (peak_call.previous_reset = NoDate \/ peak_call.previous_reset # peak_call.today))
    => /\ peak_call.new_reset_date = peak_call.today
       /\ peak_call.state_changed
       /\ peak_call.new_peak =
            IF ~peak_call.current_power.is_none /\ peak_call.current_power.value > 0
            THEN round3(peak_call.current_power.value)
            ELSE 0

\* calculate_peak_power(1.0, 9.0, yesterday) == (1.0, today, True)
C5_Witness ==
    /\ peak_call.made
    /\ peak_call.current_power = Kw(10000)
    /\ peak_call.previous_peak = 90000
    /\ peak_call.previous_reset # NoDate
    /\ peak_call.previous_reset = peak_call.today - 1
    /\ peak_call.new_peak = 10000
    /\ peak_call.new_reset_date = peak_call.today
    /\ peak_call.state_changed

\* C6: a call whose previous reset date is today returns that reset date; a
\* current power that is present and strictly above the previous peak gives
\* the power rounded to 3 decimals and changed = true; an absent, equal or
\* lower power gives the previous peak and changed = false.
C6_UpdateCheck ==
    (peak_call.made /\ peak_call.previous_reset = peak_call.today)
    => /\ peak_call.new_reset_date = peak_call.previous_reset
       /\ IF ~peak_call.current_power.is_none
             /\ peak_call.current_power.value > peak_call.previous_peak
          THEN /\ peak_call.new_peak = round3(peak_call.current_power.value)
               /\ peak_call.state_changed
          ELSE /\ peak_call.new_peak = peak_call.previous_peak
               /\ ~peak_call.state_changed

C6_Witness ==
    /\ peak_call.made /\ peak_call.previous_reset = peak_call.today
    /\ peak_call.current_power = Kw(10000)
    /\ peak_call.previous_peak = 10000
    /\ peak_call.new_peak = 10000
    /\ ~peak_call.state_changed

\* C7: once calculate_peak_power has been called and its result kept, the
\* kept peak is >= 0, whatever peak the caller started with and whatever
\* current power (absent, zero, negative) each call was given.
C7_PeakNonNegative == peak_call.made => peak_power >= 0

C7_Witness ==
    /\ peak_call.made
    /\ peak_call.previous_peak < 0
    /\ ~peak_call.current_power.is_none /\ peak_call.current_power.value < 0
    /\ peak_power = 0

\* C8: the reset fires on the first call made on a calendar date and on no
\* other call: a later call on the same date keeps the reset date and never
\* lowers the peak.
C8_ResetOncePerDay ==
    peak_call.made
    => /\ peak_call.reset <=> peak_call.first_today
       /\ ~peak_call.first_today
            => /\ peak_call.new_reset_date = peak_call.previous_reset
               /\ peak_call.new_peak >= peak_call.previous_peak

C8_Witness ==
    /\ peak_call.made /\ ~peak_call.first_today
    /\ peak_call.today > 1
    /\ peak_call.previous_peak = 90000
    /\ peak_call.current_power = Kw(10000)
    /\ peak_power = 90000
    /\ ~peak_call.reset

(***************************************************************************)
(* The aggregator applied to every mapping of at most MaxDevices devices   *)
(* whose readings are drawn from AggReadings.                              *)
(***************************************************************************)
\* Update_time values: two instants, the later one written in two ways the
\* format accepts, two strings it rejects, and the empty string
UpdateTimes ==
    {"2024-01-01T10:00:00Z", "2024-01-01T12:00:00Z", "2024-1-1T12:00:00Z",
     "N/A", "12:00", ""}

ServerTimes == {"2024-01-01T09:00:00Z", "2024-01-01T10:00:00Z", "N/A"}

AggReadings ==
    {<< <<"Update_time", u>> >> : u \in UpdateTimes}
    \cup {<< <<"Server_Time", v>> >> : v \in ServerTimes}
    \cup {<< <<"Update_time", "2024-01-01T10:00:00Z">>,
             <<"Server_Time", "2024-01-01T10:00:00Z">> >>,
          << <<"Power", "312">>, <<"PV1_Panel_Power", "160">> >>,
          <<>>,
          \* a timestamp that does not parse before a total and a timestamp
          << <<"Update_time", "N/A">>, <<"Power", "312.6">>,
             <<"Server_Time", "2024-01-01T10:00:00Z">> >>,
          \* an attribute name that is no str between two totals
          << <<"Power", "100">>, <<NonStringKey, "5">>, <<"Energy_Today", "7">> >>,
          \* every total, two panels, and attributes that are not summed
          << <<"Power", "1200">>, <<"Energy_Today", "1.257">>,
             <<"Energy_This_Month", "30,5">>, <<"Energy_This_Year", "300">>,
             <<"Energy_Total", "2286\n2260\n2220">>, <<"PV1_Panel_Power", "700">>,
             <<"PV2_Panel_Power", "650.4">>, <<"PV1_Panel_Voltage", "230">>,
             <<"Alias", "Roof 2">> >>}

Serial(i) == "SN" \o Digits[i + 1]

\* the device entries: a reading of AggReadings, or a reading that is no dict
AggDeviceChoices(i) == {Device(Serial(i), r) : r \in AggReadings} \cup {NoReading(Serial(i))}

RECURSIVE AggDeviceSeqs(_)
AggDeviceSeqs(n) ==
    IF n = 0 THEN {<<>>}
    ELSE LET shorter == AggDeviceSeqs(n - 1)
         IN  shorter \cup {Append(ds, e) : ds \in {x \in shorter : Len(x) = n - 1},
                                          e \in AggDeviceChoices(n)}

AggInputs == {NoFetched} \cup {Fetched(ds) : ds \in AggDeviceSeqs(MaxDevices)}

InitAgg ==
    /\ MqttIdle /\ PeakIdle /\ SumIdle /\ GateIdle
    /\ fetched \in AggInputs
    /\ aggregated = <<>>
    /\ agg_done = FALSE

Aggregate ==
    /\ ~agg_done
    /\ aggregated' = aggregate_plant_data(fetched)
    /\ agg_done' = TRUE
    /\ UNCHANGED <<fetched, mqttVars, peakVars, sumVars, gateVars>>

NextAgg == Aggregate

SpecAgg == InitAgg /\ [][NextAgg]_vars

SummaryKeys ==
    <<"Power", "Energy_Today", "Energy_This_Month", "Energy_This_Year", "Energy_Total",
      "Panel_Power", "Update_time", "Server_Time">>

KeySeq(items) == [i \in 1..Len(items) |-> items[i][1]]

\* dict.get(key), None when the key is missing
Get(items, key) ==
    IF \E i \in 1..Len(items) : items[i][1] = key
    THEN items[CHOOSE i \in 1..Len(items) : items[i][1] = key][2]
    ELSE None

EmptyInput(f) == f.is_none \/ f.devices = <<>>

\* C9 as stated: the output has exactly the eight summary keys for every
\* input, the empty mapping and absent input included.
C9_AlwaysEightKeys == agg_done => KeySeq(aggregated) = SummaryKeys

\* C9: for every non-empty mapping of device readings the output has exactly
\* the eight summary keys; for the empty mapping and for absent input the
\* output is the empty mapping.
C9_EightKeysUnlessEmpty ==
    agg_done =>
        IF EmptyInput(fetched) THEN aggregated = <<>>
        ELSE KeySeq(aggregated) = SummaryKeys

\* every device skipped, and still the eight keys
C9_Witness ==
    /\ agg_done
    /\ Len(fetched.devices) = MaxDevices
    /\ \A i \in 1..Len(fetched.devices) : ~fetched.devices[i].mapping
    /\ KeySeq(aggregated) = SummaryKeys
    /\ Get(aggregated, "Update_time") = None

\* the devices the aggregator does not skip
Processed(devices) ==
    {i \in 1..Len(devices) : devices[i].mapping /\ Len(devices[i].items) > 0}

\* the devices that carry a value of the field that parses in the fixed format
Parseable(devices, key) ==
    {i \in Processed(devices) : strptime(Get(devices[i].items, key)) # NoTime}

\* among them, those no other is later than
Latest(devices, key) ==
    {i \in Parseable(devices, key) :
        \A j \in Parseable(devices, key) :
            ~TimeAfter(strptime(Get(devices[j].items, key)),
                       strptime(Get(devices[i].items, key)))}

Min(S) == CHOOSE i \in S : \A j \in S : i <= j

\* the same devices iterated in another order
Reordered(devices, pi) == [i \in 1..Len(devices) |-> devices[pi[i]]]

Orders(devices) == Permutations(1..Len(devices))

OutputOf(devices, key) == Get(aggregate_plant_data(Fetched(devices)), key)

\* C10 as stated: when a device carries a parseable value of a timestamp
\* field, the output for the field is the raw string of a temporally latest
\* parseable value, and it is the same string in whatever order the devices
\* are iterated.
C10_LatestWinsAnyOrder ==
    (agg_done /\ ~EmptyInput(fetched)) =>
        \A key \in TimestampAttributes :
            Parseable(fetched.devices, key) # {}
            => /\ \E i \in Latest(fetched.devices, key) :
                    Get(aggregated, key) = Get(fetched.devices[i].items, key)
               /\ \A pi \in Orders(fetched.devices) :
                    OutputOf(Reordered(fetched.devices, pi), key) = Get(aggregated, key)

\* C10: when a device carries a parseable value of a timestamp field, the
\* output for the field is the raw string of the first device in iteration
\* order among those carrying the temporally latest parseable value, whatever
\* unparseable values other devices carry; the instant it denotes is the same
\* in whatever order the devices are iterated.
C10_LatestWins ==
    (agg_done /\ ~EmptyInput(fetched)) =>
        \A key \in TimestampAttributes :
            Parseable(fetched.devices, key) # {}
            => /\ Get(aggregated, key)
                    = Get(fetched.devices[Min(Latest(fetched.devices, key))].items, key)
               /\ \A pi \in Orders(fetched.devices) :
                    strptime(OutputOf(Reordered(fetched.devices, pi), key))
                      = strptime(Get(aggregated, key))

\* an unparseable value first, the later instant second
C10_Witness ==
    /\ agg_done
    /\ Len(fetched.devices) = 2
    /\ Get(fetched.devices[1].items, "Update_time") = "N/A"
    /\ Get(fetched.devices[2].items, "Update_time") = "2024-01-01T12:00:00Z"
    /\ Get(aggregated, "Update_time") = "2024-01-01T12:00:00Z"
    /\ Get(aggregated, "Server_Time") = None

(***************************************************************************)
(* Errors while an attribute is processed.                                 *)
(***************************************************************************)
NumericKeys ==
    {"Power", "Energy_Today", "Energy_This_Month", "Energy_This_Year", "Energy_Total",
     "Panel_Power"}

\* processing the item raises: a timestamp strptime rejects, or an attribute
\* name that is no str
Erroring(item) ==
    \/ item[1] = NonStringKey
    \/ /\ item[1] \in TimestampAttributes
       /\ item[2] \notin {None, ""}
       /\ strptime(item[2]) = NoTime

Contributes(item) == ~Erroring(item)

\* the items of a reading up to the first attribute name that is no str
RECURSIVE Reached(_)
Reached(items) ==
    IF Len(items) = 0 \/ Head(items)[1] = NonStringKey THEN <<>>
    ELSE <<Head(items)>> \o Reached(Tail(items))

\* the input without the items whose processing raises
WithoutErroring(devices) ==
    [i \in 1..Len(devices) |->
        [devices[i] EXCEPT !.items = SelectSeq(@, Contributes)]]

\* the same, and without the items that follow an attribute name that is no str
WithoutErroringAndUnreached(devices) ==
    [i \in 1..Len(devices) |->
        [devices[i] EXCEPT !.items = SelectSeq(Reached(@), Contributes)]]

\* the output has the totals of the other output, and its timestamps where a
\* value of the field parses
SameContributions(devices, out, other) ==
    /\ \A key \in NumericKeys : Get(out, key) = Get(other, key)
    /\ \A key \in TimestampAttributes :
          Parseable(devices, key) # {} => Get(out, key) = Get(other, key)

CountsFor(attribute, key) ==
    IF key = "Panel_Power" THEN endswith(attribute, "_Panel_Power") ELSE attribute = key

\* the total after the values of a reading that count for it are added, in the
\* order of the reading
RECURSIVE SumWhere(_, _, _)
SumWhere(total, items, key) ==
    IF Len(items) = 0 THEN total
    ELSE IF ~CountsFor(Head(items)[1], key) THEN SumWhere(total, Tail(items), key)
    ELSE The({SumWhere(next, Tail(items), key) :
                 next \in {FloatAdd(total, sum_numbers_from_string(Head(items)[2]))}})

RECURSIVE SumDevices(_, _, _)
SumDevices(total, devices, key) ==
    IF Len(devices) = 0 THEN total
    ELSE IF ~Head(devices).mapping THEN SumDevices(total, Tail(devices), key)
    ELSE The({SumDevices(next, Tail(devices), key) :
                 next \in {SumWhere(total, Head(devices).items, key)}})

\* every attribute name is a str and every value that counts for a total is a
\* string
WellFormed(devices) ==
    \A i \in 1..Len(devices) : \A j \in 1..Len(devices[i].items) :
        /\ devices[i].items[j][1] # NonStringKey
        /\ (\E key \in NumericKeys : CountsFor(devices[i].items[j][1], key))
             => devices[i].items[j][2] \notin {None, Unserializable}

\* C12: for a non-empty mapping of well-formed readings, each energy total is
\* the sum over the devices of that attribute alone, rounded to 2 decimals;
\* Power is the sum of the Power attributes and Panel_Power the sum of every
\* attribute ending in _Panel_Power, each divided by 1000 and rounded to 3
\* decimals.
C12_TotalsAreSums ==
    (agg_done /\ ~EmptyInput(fetched) /\ WellFormed(fetched.devices)) =>
        /\ \A key \in {"Power", "Panel_Power"} :
              Get(aggregated, key) = round3_kw(SumDevices(Zero, fetched.devices, key))
        /\ \A key \in NumericKeys \ {"Power", "Panel_Power"} :
              Get(aggregated, key) = round2(SumDevices(Zero, fetched.devices, key))

\* two devices with every total and the panels PV1 and PV2
C12_Witness ==
    /\ agg_done
    /\ Len(fetched.devices) = 2
    /\ WellFormed(fetched.devices)
    /\ \A i \in 1..2 :
          /\ Get(fetched.devices[i].items, "PV1_Panel_Power") = "700"
          /\ Get(fetched.devices[i].items, "PV2_Panel_Power") = "650.4"
    /\ Get(aggregated, "Panel_Power") = 27010
    /\ Get(aggregated, "Power") = 24000
    /\ Get(aggregated, "Energy_Today") = 25100
    /\ Get(aggregated, "Energy_This_Month") = 610000
    /\ Get(aggregated, "Energy_Total") = 135320000

(***************************************************************************)
(* The number extractor on its own: sum_numbers_from_string is applied to  *)
(* the strings of the docstring and to every string of at most MaxPieces   *)
(* pieces.                                                                 *)
(***************************************************************************)
SumPieces ==
    {"3.86", "-0.20", "22865", "+7", ",06", "3.563", ".", "-", " ", "\n", "\r\n", "x", NBSP}

RECURSIVE SumStrings(_)
SumStrings(n) ==
    IF n = 0 THEN {""}
    ELSE LET shorter == SumStrings(n - 1)
         IN  shorter \cup {a \o b : a \in shorter, b \in SumPieces}

DocstringExamples ==
    {"22865\n22603\n22200", "3.86-0.20-0.00-0.00", "9173 9064 8939", "3.563,06"}

SumInputs == {None, "  \n\t "} \cup DocstringExamples \cup SumStrings(MaxPieces)

InitSum ==
    /\ MqttIdle /\ AggIdle /\ PeakIdle /\ GateIdle
    /\ sum_input \in SumInputs
    /\ sum_result = Zero
    /\ sum_done = FALSE

SumNumbers ==
    /\ ~sum_done
    /\ sum_result' = sum_numbers_from_string(sum_input)
    /\ sum_done' = TRUE
    /\ UNCHANGED <<sum_input, mqttVars, aggVars, peakVars, gateVars>>

NextSum == SumNumbers

SpecSum == InitSum /\ [][NextSum]_vars

\* t is an optional sign, digits, and optionally a period between digits
IsNumber(t) ==
    LET body == IF Len(t) > 0 /\ Ch(t, 1) \in {"-", "+"} THEN StrTail(t) ELSE t
        periods == {i \in 1..Len(body) : Ch(body, i) = "."}
    IN  /\ Len(body) > 0
        /\ \A i \in 1..Len(body) : IsDigit(Ch(body, i)) \/ i \in periods
        /\ Cardinality(periods) <= 1
        /\ \A i \in periods : 1 < i /\ i < Len(body)

\* the tokens of s from position `from` on: the leftmost place where a number
\* starts, the longest number there, then the tokens after it
RECURSIVE Tokens(_, _)
Tokens(s, from) ==
    LET ends(i) == {j \in i..Len(s) : IsNumber(SubSeq(s, i, j))}
        starts == {i \in from..Len(s) : ends(i) # {}}
    IN  IF starts = {} THEN <<>>
        ELSE LET i == Min(starts)
                 j == CHOOSE j \in ends(i) : \A k \in ends(i) : k <= j
             IN  <<SubSeq(s, i, j)>> \o Tokens(s, j + 1)

\* a line break is part of no token, so the tokens of the lines are the tokens
\* of the whole string, in the same order
TokenSum(s) == SumFloats(Zero, Tokens(replace(s, ",", "."), 1))

IsBlank(s) == \A i \in 1..Len(s) : Ch(s, i) \in Whitespace

\* the double next to 3.66 from below, which prints as 3.6599999999999997
BelowThreePointSixSix ==
    FloatAdd(float("3.66"), [neg |-> TRUE, mant |-> ShiftLeft(<<1>>, MantBits - 1),
                             exp |-> float("3.66").exp - (MantBits - 1)])

C14_CommaDecimalWithThousands ==
    sum_done /\ sum_input = "3.563,06" => sum_result = float("3563.06")

\* what the code returns for it: the comma becomes a second period, the tokens
\* are 3.563 and 06, and their sum is 9.563
C14_Returned ==
    /\ sum_done
    /\ sum_input = "3.563,06"
    /\ Tokens(replace(sum_input, ",", "."), 1) = <<"3.563", "06">>
    /\ sum_result = float("9.563")

(***************************************************************************)
(* Properties of the state publisher.                                      *)
(***************************************************************************)
StateKinds == {"device_state", "plant_state", "peak_state"}

\* the positions of the publishes of a kind in a call
CallsOfKind(call, kind) == {i \in 1..Len(call.calls) : call.calls[i].kind = kind}

\* C15: in a publish_state call on a connected client the peak-power state is
\* published retained and is the only retained message; the device states and
\* the plant state are not retained; every message has QoS 1.
C15_OnlyPeakRetained ==
    last.op = "state" /\ last.conn =>
        /\ \A i \in 1..Len(last.calls) :
              /\ last.calls[i].kind \in StateKinds
              /\ last.calls[i].qos = 1
              /\ last.calls[i].retain <=> last.calls[i].kind = "peak_state"
        /\ Cardinality(CallsOfKind(last, "peak_state")) = 1

C15_Witness ==
    /\ last.op = "state" /\ last.conn
    /\ Cardinality(CallsOfKind(last, "device_state")) = 2
    /\ Cardinality(CallsOfKind(last, "plant_state")) = 1
    /\ \E i \in CallsOfKind(last, "peak_state") : last.calls[i].retain
    /\ \E i \in CallsOfKind(last, "device_state") : ~last.calls[i].retain

\* the messages publish_state owes for the d-th input, in order: one for
\* every reading that is a dict json.dumps accepts, the plant's when json.dumps
\* accepts the summary, and the peak's
RECURSIVE OwedDevices(_)
OwedDevices(device_data) ==
    IF Len(device_data) = 0 THEN <<>>
    ELSE (IF Head(device_data).mapping
             /\ \A i \in 1..Len(Head(device_data).items) :
                    Head(device_data).items[i][2] # Unserializable
          THEN <<Head(device_data).sn>> ELSE <<>>) \o OwedDevices(Tail(device_data))

Owed(d) ==
    OwedDevices(DeviceDatas[d])
    \o (IF \E i \in 1..Len(PlantDatas[d]) :
               /\ PlantDatas[d][i][1] \in {"Update_time", "Server_Time"}
               /\ PlantDatas[d][i][2] = Unserializable
        THEN <<>> ELSE <<"plant">>)
    \o <<"peak_power_today">>

\* C16: whichever messages of a publish_state call fail to serialize or raise
\* in client.publish, every other message the call owes is still published,
\* and the call returns normally.
C16_StateFailureIsolated ==
    last.op = "state" /\ last.conn =>
        /\ ~last.raised
        /\ [i \in 1..Len(last.calls) |-> last.calls[i].id] = Owed(last.dev)

\* a reading and the plant summary fail to serialize, the publish of the next
\* device raises, and the peak state is published after it
C16_Witness ==
    /\ last.op = "state" /\ last.conn
    /\ Len(DeviceDatas[last.dev]) = 3
    /\ Len(last.calls) = 2
    /\ last.calls[1].kind = "device_state" /\ ~last.calls[1].ok
    /\ last.calls[2].kind = "peak_state" /\ last.calls[2].ok

(***************************************************************************)
(* utils.is_inactive.  config is a dict of which any key may be missing;   *)
(* the enabled flag is a bool and the two times are str, as the add-on's   *)
(* options give them.  The defaults of const.py are inputs.                *)
(***************************************************************************)
CONF_INACTIVITY_ENABLED == "inactivity_enabled"

CONF_INACTIVITY_START_TIME == "inactivity_start_time"

CONF_INACTIVITY_END_TIME == "inactivity_end_time"

\* config.get(key, default)
ConfigGet(cfg, key, default) == IF key \in DOMAIN cfg THEN cfg[key] ELSE default

\* datetime.strptime(s, "%H:%M").time() as <<hour, minute, second>>, or NoTime
\* where strptime raises ValueError
time_hm(s) ==
    LET h == TimeField(s, 1, 1, 2)
        m == TimeField(s, h.end + 1, 1, 2)
    IN  IF /\ h.ok /\ Lit(s, h.end, ":")
           /\ m.ok /\ Len(s) = m.end - 1
           /\ h.val <= 23 /\ m.val <= 59
        THEN <<h.val, m.val, 0>>
        ELSE NoTime

\* a gate that knows no overnight window
is_inactive_SameDayOnly(cfg, current_time, dflt) ==
    LET start_time == time_hm(ConfigGet(cfg, CONF_INACTIVITY_START_TIME, dflt.start))
        end_time == time_hm(ConfigGet(cfg, CONF_INACTIVITY_END_TIME, dflt.end))
    IN  IF ~ConfigGet(cfg, CONF_INACTIVITY_ENABLED, dflt.enabled) THEN FALSE
        ELSE IF start_time = NoTime \/ end_time = NoTime THEN FALSE
        ELSE ~TimeAfter(start_time, current_time) /\ TimeAfter(end_time, current_time)

is_inactive(cfg, current_time, dflt) ==
    LET inactivity_enabled == ConfigGet(cfg, CONF_INACTIVITY_ENABLED, dflt.enabled)
        start_time_str == ConfigGet(cfg, CONF_INACTIVITY_START_TIME, dflt.start)
        end_time_str == ConfigGet(cfg, CONF_INACTIVITY_END_TIME, dflt.end)
        start_time == time_hm(start_time_str)
        end_time == time_hm(end_time_str)
    IN  IF ~inactivity_enabled THEN FALSE
        \* "except ValueError: return False"
        ELSE IF start_time = NoTime \/ end_time = NoTime THEN FALSE
        \* "if start_time > end_time": current_time >= start_time or current_time < end_time
        ELSE IF TimeAfter(start_time, end_time)
             THEN ~TimeAfter(start_time, current_time) \/ TimeAfter(end_time, current_time)
        \* "else": start_time <= current_time < end_time
        ELSE ~TimeAfter(start_time, current_time) /\ TimeAfter(end_time, current_time)

\* the time strings of the configurations: well-formed ones, and what
\* strptime rejects
TimeStrings == {"21:00", "05:30", "5:30", "14:00", "24:00", "23:60", "21:00:00", ""}

\* a dict with the key, for each of the values, and the dict without it
Entries(key, values) == {[k \in {} |-> ""]} \cup {key :> v : v \in values}

GateConfigs ==
    {e @@ s @@ t : e \in Entries(CONF_INACTIVITY_ENABLED, BOOLEAN),
                   s \in Entries(CONF_INACTIVITY_START_TIME, TimeStrings),
                   t \in Entries(CONF_INACTIVITY_END_TIME, TimeStrings)}

GateDefaults == [enabled : BOOLEAN, start : {"21:00"}, end : {"05:30", "21:00"}]

GateTimes == {0, 5, 14, 21, 23} \X {0, 29, 30} \X {0, 59}

InitGate ==
    /\ MqttIdle /\ AggIdle /\ PeakIdle /\ SumIdle
    /\ defaults \in GateDefaults
    /\ config \in GateConfigs
    /\ now_local \in GateTimes
    /\ inactive = FALSE
    /\ gate_done = FALSE

IsInactive ==
    /\ ~gate_done
    /\ inactive' = is_inactive(config, now_local, defaults)
    /\ gate_done' = TRUE
    /\ UNCHANGED <<defaults, config, now_local, mqttVars, aggVars, peakVars, sumVars>>

NextGate == IsInactive

SpecGate == InitGate /\ [][NextGate]_vars

\* what CPython's strptime("%H:%M") makes of each time string: the minute of
\* the day, or -1 where it raises ValueError
MinuteOfDay ==
    [s \in TimeStrings |->
        CASE s = "21:00" -> 1260
          [] s \in {"05:30", "5:30"} -> 330
          [] s = "14:00" -> 840
          [] OTHER -> 0 - 1]

\* the reference predicate, on the second of the day
InWindow(enabled, start, end, now) ==
    LET s == 60 * MinuteOfDay[start]
        e == 60 * MinuteOfDay[end]
        n == 3600 * now[1] + 60 * now[2] + now[3]
    IN  /\ enabled
        /\ MinuteOfDay[start] >= 0 /\ MinuteOfDay[end] >= 0
        /\ IF s > e THEN n >= s \/ n < e ELSE s <= n /\ n < e

Setting(key, default) == IF key \in DOMAIN config THEN config[key] ELSE default

\* C17: is_inactive is the reference predicate: false when the gate is
\* disabled or a time string does not parse; for an overnight window true iff
\* now >= start or now < end; for a same-day window true iff start <= now < end,
\* so never when start = end.
C17_GateIsReference ==
    gate_done =>
        /\ inactive = InWindow(Setting(CONF_INACTIVITY_ENABLED, defaults.enabled),
                               Setting(CONF_INACTIVITY_START_TIME, defaults.start),
                               Setting(CONF_INACTIVITY_END_TIME, defaults.end),
                               now_local)
        /\ MinuteOfDay[Setting(CONF_INACTIVITY_START_TIME, defaults.start)]
              = MinuteOfDay[Setting(CONF_INACTIVITY_END_TIME, defaults.end)] => ~inactive

\* an overnight window from 21:00 to 5:30, asked at 05:29:59
C17_Witness ==
    /\ gate_done /\ inactive
    /\ config = [inactivity_enabled |-> TRUE, inactivity_start_time |-> "21:00",
                 inactivity_end_time |-> "5:30"]
    /\ now_local = <<5, 29, 59>>

\* C18: nothing in the publish path is fatal: whatever the readings are, one
\* that is absent or no dict included, publish_discovery and publish_state on
\* a connected client raise nothing and still publish the plant's and the peak
\* sensor's messages.
C18_NothingFatal ==
    last.op \in {"discovery", "state"} /\ last.conn =>
        /\ ~last.raised
        /\ last.op = "discovery" =>
              /\ peak_unique_id \in last.pre \cup Attempted(last)
              /\ \A i \in 1..Len(PlantDatas[last.dev]) :
                    plant_unique_id(PlantDatas[last.dev][i][1]) \in last.pre \cup Attempted(last)
        /\ last.op = "state" => CallsOfKind(last, "peak_state") # {}

\* publish_discovery on a connected client meets the reading that is no dict:
\* the exception leaves the call before the plant's and the peak sensor's
\* discovery, which were not published before either
C18_DiscoveryRaised ==
    /\ last.op = "discovery" /\ last.conn
    /\ \E i \in 1..Len(DeviceDatas[last.dev]) : ~DeviceDatas[last.dev][i].mapping
    /\ last.raised
    /\ peak_unique_id \notin last.pre \cup Attempted(last)
    /\ plant_unique_id("Power") \notin last.pre \cup Attempted(last)

\* the devices that carry a value of the field that is not empty
NonEmpty(devices, key) ==
    {i \in Processed(devices) : Get(devices[i].items, key) \notin {None, ""}}

\* C19: when no value of a timestamp field parses, the output for the field is
\* the first non-empty raw string in iteration order (None when there is
\* none): a later unparseable string does not overwrite it.
C19_FallbackFirstRaw ==
    (agg_done /\ ~EmptyInput(fetched)) =>
        \A key \in TimestampAttributes :
            Parseable(fetched.devices, key) = {}
            => Get(aggregated, key)
                 = IF NonEmpty(fetched.devices, key) = {} THEN None
                   ELSE Get(fetched.devices[Min(NonEmpty(fetched.devices, key))].items, key)

\* two unparseable strings: the first stays
C19_Witness ==
    /\ agg_done
    /\ Len(fetched.devices) = 2
    /\ fetched.devices[1].mapping /\ fetched.devices[2].mapping
    /\ Get(fetched.devices[1].items, "Update_time") = "N/A"
    /\ Get(fetched.devices[2].items, "Update_time") = "12:00"
    /\ Get(aggregated, "Update_time") = "N/A"

(***************************************************************************)
(* The publishers under the scheduling of the add-on: its loop connects,   *)
(* the client's network loop reconnects after a loss, and every cycle      *)
(* calls publish_discovery with the readings of that cycle, so for each    *)
(* input a call on a connected client in which no publish raises happens   *)
(* again and again.                                                        *)
(***************************************************************************)
Connected == ConnectMqtt /\ client' = "client"

\* publish_discovery with the d-th input on a connected client, no publish
\* raising
DiscoveryAnswered(d) == IsClient /\ Discovery(d, {})

Fairness ==
    /\ WF_vars(Connected)
    /\ WF_vars(Reconnected)
    /\ \A d \in 1..Len(DeviceDatas) : SF_vars(DiscoveryAnswered(d))

SpecFair == Init /\ [][Next]_vars /\ Fairness

\* the unique ids whose every publish in the call raised
Failed(call) == Attempted(call) \ Published(call)

\* a sensor whose publish raised in a call is published again by the next call
\* with the same input on a connected client
RetriedNextCall ==
    (/\ first.op = "discovery" /\ last.op = "discovery"
     /\ first.conn /\ last.conn)
    => \A id \in Failed(first) : id \in Attempted(last)

\* a call publishes no sensor that was discovered before it
NotRepublished == last.op = "discovery" => Attempted(last) \cap last.pre = {}

\* C20: a sensor whose discovery publish raised is published again by the
\* next call with the same input; when the client is connected again and again
\* and publishes are answered in the end, every sensor's unique id is
\* eventually discovered, stays so, and is never published again.
C20_RetriedUntilDiscovered ==
    /\ [](RetriedNextCall /\ NotRepublished)
    /\ <>[](AllIds \subseteq discovered)

\* the publish of a sensor raised in one call and was answered in the next
C20_Witness ==
    /\ first.op = "discovery" /\ last.op = "discovery"
    /\ first.conn /\ last.conn
    /\ \E id \in Failed(first) : id \in Published(last) /\ id \in discovered

(***************************************************************************)
(* The skip rule of publish_discovery, restated from the tables: which     *)
(* attributes of an input are sensors.                                     *)
(***************************************************************************)
\* the readings the device loop gets to: those before the first reading that
\* is no mapping
ReachedReadings(d) ==
    {i \in 1..Len(DeviceDatas[d]) : \A k \in 1..i : DeviceDatas[d][k].mapping}

ReachedAttributes(d) ==
    UNION {{<<i, j>> : j \in 1..Len(DeviceDatas[d][i].items)} : i \in ReachedReadings(d)}

AttributeAt(d, p) == DeviceDatas[d][p[1]].items[p[2]][1]

IdAt(d, p) == device_unique_id(DeviceDatas[d][p[1]].sn, AttributeAt(d, p))

HasUnitOrClass(base) == UNIT_MAPPING(base) # None \/ DEVICE_CLASS_MAPPING(base) # None

\* a device attribute that is a sensor
DeviceSensor(attribute) ==
    /\ attribute # "Alias"
    /\ HasUnitOrClass(base_attribute(attribute)) \/ attribute \in TimestampAttributes

\* a plant attribute that is a sensor
PlantSensor(attribute) ==
    HasUnitOrClass(attribute) \/ attribute \in TimestampAttributes

DeviceSensorIds(d) ==
    {IdAt(d, p) : p \in {q \in ReachedAttributes(d) : DeviceSensor(AttributeAt(d, q))}}

PlantSensorIds(d) ==
    IF AllMappings(d)
    THEN {plant_unique_id(PlantDatas[d][i][1]) :
              i \in {j \in 1..Len(PlantDatas[d]) : PlantSensor(PlantDatas[d][j][1])}}
    ELSE {}

DeviceSkippedIds(d) ==
    {IdAt(d, p) : p \in {q \in ReachedAttributes(d) : ~DeviceSensor(AttributeAt(d, q))}}

TimestampIds(d) ==
    {IdAt(d, p) : p \in {q \in ReachedAttributes(d) :
                            AttributeAt(d, q) \in TimestampAttributes}}
    \cup {plant_unique_id(a) : a \in TimestampAttributes}

\* C21: a publish_discovery call on a connected client publishes the config of
\* exactly the sensors it gets to that were not discovered before: the device
\* attributes other than Alias and the plant attributes whose base attribute
\* has a unit or a device class or that are Update_time/Server_Time; a
\* timestamp is published with device class "timestamp"; and the id of a
\* skipped attribute is neither published nor added to the discovered set.
C21_SkipRule ==
    (last.op = "discovery" /\ last.conn) =>
        /\ Attempted(last) \ {peak_unique_id}
               = (DeviceSensorIds(last.dev) \cup PlantSensorIds(last.dev)) \ last.pre
        /\ \A i \in ConfigCalls(last) :
               last.calls[i].id \in TimestampIds(last.dev)
                   => last.calls[i].device_class = "timestamp"
        /\ \A id \in DeviceSkippedIds(last.dev) \ DeviceSensorIds(last.dev) :
               id \notin Attempted(last) /\ (id \in discovered => id \in last.pre)

\* a call that skipped Alias and an attribute without unit and device class and
\* published a timestamp and a panel attribute
C21_Witness ==
    /\ last.op = "discovery" /\ last.conn /\ last.dev = 2
    /\ "saj_SN1_update_time" \in Published(last)
    /\ "saj_SN2_pv1_panel_power" \in Published(last)
    /\ "saj_SN1_firmware" \notin discovered
    /\ "saj_SN1_alias" \notin discovered

\* the network loop is not running when the call is over
LoopStopped(call) ==
    \A i \in CallsOfKind(call, "loop_start") :
        call.calls[i].ok => \E j \in CallsOfKind(call, "loop_stop") : j > i

\* C22: in every connect_mqtt call the offline last will is set, retained,
\* before the connect; the online payload is published, retained, only after
\* is_connected answered yes; a client is returned iff that publish went
\* through; otherwise None is returned (nothing is raised) and the network loop
\* is stopped.
C22_ConnectOrdering ==
    last.op = "connect" =>
        /\ \A i \in CallsOfKind(last, "connect") :
               \E j \in CallsOfKind(last, "will_set") :
                   j < i /\ last.calls[j].id = MQTT_PAYLOAD_OFFLINE /\ last.calls[j].retain
        /\ \A i \in CallsOfKind(last, "availability") :
               /\ last.calls[i].id = MQTT_PAYLOAD_ONLINE /\ last.calls[i].retain
               /\ \E j \in CallsOfKind(last, "is_connected") : j < i /\ last.calls[j].ok
        /\ last.conn <=> \E i \in CallsOfKind(last, "availability") : last.calls[i].ok
        /\ ~last.conn => ~last.raised /\ LoopStopped(last)

\* connect_mqtt raised: the configured port is no number
C22_ConnectRaised == last.op = "connect" /\ last.raised /\ last.calls = <<>>

\* the sensors of an input, one for each attribute that is a sensor: the
\* device attributes by their place, the plant attributes, the peak sensor
DeviceSensors(d) == {p \in ReachedAttributes(d) : DeviceSensor(AttributeAt(d, p))}

PlantSensors(d) ==
    IF AllMappings(d)
    THEN {i \in 1..Len(PlantDatas[d]) : PlantSensor(PlantDatas[d][i][1])}
    ELSE {}

PeakSensors(d) == IF AllMappings(d) THEN 1 ELSE 0

\* C23: unique ids are collision-free: a first publish_discovery call on a
\* connected client in which no publish raises publishes one config for each
\* sensor it gets to, none being skipped because another sensor has its id.
C23_NoCollision ==
    (/\ last.op = "discovery" /\ last.conn
     /\ last.pre = {} /\ NoPublishRaised(last))
    => Cardinality(ConfigCalls(last))
           = Cardinality(DeviceSensors(last.dev)) + Cardinality(PlantSensors(last.dev))
             + PeakSensors(last.dev)

\* the reading of SN2 has the attributes PV1_Panel_Power and Pv1_Panel_Power:
\* both get the id saj_SN2_pv1_panel_power, and one config is published for
\* the two
C23_Suppressed ==
    /\ last.op = "discovery" /\ last.conn /\ last.dev = 2
    /\ last.pre = {} /\ NoPublishRaised(last)
    /\ \E p, q \in DeviceSensors(2) : p # q /\ IdAt(2, p) = IdAt(2, q)
                                       /\ ConfigCount(last, IdAt(2, p)) = 1

MaxOf(S) == CHOOSE m \in S : \A x \in S : x <= m

\* C25: within a calendar day, over the calls from the one that reset on, the
\* peak never decreases, and after each call it is the largest of 0.0 and the
\* 3-decimal roundings of the present current powers given since the reset.
C25_PeakIsDayMaximum ==
    peak_call.made =>
        /\ ~peak_call.reset => peak_call.new_peak >= peak_call.previous_peak
        /\ peak_power = MaxOf({0} \cup {round3(v) : v \in powers_today})

\* a third call of a day: the peak is the rounding of an earlier power, above
\* the power of this call
C25_Witness ==
    /\ peak_call.made /\ ~peak_call.reset
    /\ Cardinality(powers_today) >= 3
    /\ ~peak_call.current_power.is_none
    /\ round3(peak_call.current_power.value) < peak_power
    /\ peak_power = 12350

====
